---- MODULE Spec2Model ----
(***************************************************************************)
(* Model of klipper_ledstrip.py: the colour arithmetic, the progress-bar   *)
(* renderer and the controller loop run().                                 *)
(*                                                                         *)
(* Numbers.  Temperatures are integers (degrees).  A weight or a fraction  *)
(* is an exact rational num/den; Python's float arithmetic agrees with the *)
(* exact value for the pixel split of progress() on strips of up to 12     *)
(* pixels and for mix_color() with dyadic weights (k/2, k/4, k/8); with    *)
(* other weights the float result of round() may differ by one unit from   *)
(* the exact value when the exact value is a tie.                          *)
(*                                                                         *)
(* Queries.  A response of the status API is either well formed or lacks   *)
(* the expected keys; transport failures are not modelled.                 *)
(*                                                                         *)
(* Specifications.  Spec and SpecIdle run the loop a tick at a time;       *)
(* SpecSteps runs it one strip operation at a time and lets a              *)
(* KeyboardInterrupt arrive between any two of them; SpecChase runs        *)
(* chase() statement by statement; SpecMix, SpecProgress and SpecHeating   *)
(* apply one pure function to inputs drawn by the initial state.           *)
(***************************************************************************)
EXTENDS Integers, Sequences, FiniteSets, TLC

\* ------------------------------------------------------------------------
\* Program constants (src/klipper_ledstrip.py:14-42)
\* ------------------------------------------------------------------------
LED_COUNT == 10
LED_BRIGHTNESS == 255

BED_HEATING_BASE_COLOR == <<0, 0, 255>>
BED_HEATING_PROGRESS_COLOR == <<238, 130, 238>>
HOTEND_HEATING_BASE_COLOR == <<238, 130, 238>>
HOTEND_HEATING_PROGRESS_COLOR == <<255, 0, 0>>
PRINT_BASE_COLOR == <<0, 0, 0>>
PRINT_PROGRESS_COLOR == <<0, 255, 0>>
STANDBY_COLOR == <<255, 0, 255>>
COMPLETE_COLOR == <<235, 227, 9>>
PAUSED_COLOR == <<0, 255, 0>>
ERROR_COLOR == <<255, 0, 0>>

REVERSE == FALSE

SHUTDOWN_WHEN_COMPLETE == TRUE
BED_TEMP_FOR_OFF == 50
HOTEND_TEMP_FOR_OFF == 40

IDLE_TIMEOUT == 300

\* ------------------------------------------------------------------------
\* Bounds of the model
\* ------------------------------------------------------------------------
\* ticks the idle timer may run past IDLE_TIMEOUT in the idle specification
IdleExtraTicks == 3
\* ticks the idle timer may run in the full specification
MaxIdleTicks == 2
\* ticks the idle timer may run in the stepwise specification
MaxStepIdleTicks == 1
\* the temperatures heating_percent() is studied on are 0..MaxHeat
MaxHeat == 7
\* percents below zero for which the bars of run() are computed in advance
MemoSpan == 300
\* largest strip length drawn for the progress-bar specification
MaxPixels == 10
\* denominator of the weights drawn for the mix_color specification
WeightDen == 4

\* ------------------------------------------------------------------------
\* Python arithmetic
\* ------------------------------------------------------------------------
Abs(x) == IF x < 0 THEN 0 - x ELSE x

\* a slip in the rounding: int() in place of math.floor()
Floor_TowardZero(num, den) ==
    LET n == IF den < 0 THEN 0 - num ELSE num
        d == Abs(den)
    IN  IF n >= 0 THEN n \div d ELSE 0 - ((0 - n) \div d)

\* math.floor(num / den), den # 0
Floor(num, den) ==
    LET n == IF den < 0 THEN 0 - num ELSE num
        d == Abs(den)
    IN  IF n >= 0 THEN n \div d ELSE 0 - ((0 - n + d - 1) \div d)

\* int(num / den): truncation toward zero, den > 0
Trunc(num, den) ==
    IF num >= 0 THEN num \div den ELSE 0 - ((0 - num) \div den)

\* round(num / den), den > 0: Python 3 rounds a tie to the even neighbour
Round(num, den) ==
    LET f == Floor(num, den)
        r == 2 * (num - f * den)
    IN  IF r > den THEN f + 1
        ELSE IF r < den THEN f
        ELSE IF f % 2 = 0 THEN f ELSE f + 1

\* ------------------------------------------------------------------------
\* Colour math
\* ------------------------------------------------------------------------
\* average(num_a, num_b) for num_a = a/den and num_b = b/den
average(a, b, den) == Round(a + b, 2 * den)

\* mix_color(colour1, colour2, percent_of_c1) with percent_of_c1 = wn/wd.
\* A weight of 0 is falsy: the colours are then averaged unweighted.
mix_color(colour1, colour2, wn, wd) ==
    IF wn # 0
    THEN [i \in 1..3 |-> average(colour1[i] * wn, colour2[i] * (wd - wn), wd)]
    ELSE [i \in 1..3 |-> average(colour1[i], colour2[i], 1)]

\* color_brightness_correction(color, brightness), the brightness given in
\* quarter units (b4 = 4 * brightness): int(c * (brightness / 255))
color_brightness_correction(color, b4) ==
    [i \in 1..3 |-> Trunc(color[i] * b4, 4 * 255)]

Full == 4 * LED_BRIGHTNESS

\* ------------------------------------------------------------------------
\* The strip: a pixel buffer and the global brightness
\* ------------------------------------------------------------------------
Black == <<0, 0, 0>>

NewStrip(n) == [pixels |-> [p \in 0..(n - 1) |-> Black], brightness |-> LED_BRIGHTNESS]

numPixels(s) == Cardinality(DOMAIN s.pixels)

setPixelColorRGB(s, pixel, color) ==
    IF pixel \in DOMAIN s.pixels
    THEN [s EXCEPT !.pixels[pixel] = color]
    ELSE s

setBrightness(s, b) == [s EXCEPT !.brightness = b]

\* the strip operations an animation performs, in program order
Set(pixel, color) == [op |-> "set", pixel |-> pixel, color |-> color]
Show == [op |-> "show", pixel |-> 0 - 1, color |-> Black]

\* what a sequence of operations, applied in order, leaves in each of n
\* pixels: the colour of the last write that names the pixel, or <<>> for a
\* pixel no write names (entry p + 1 is pixel p)
LastWrites(n, ws) ==
    LET w == <<>> \o ws
    IN  <<>> \o [q \in 1..n |->
            LET hits == {k \in 1..Len(w) : w[k].op = "set" /\ w[k].pixel = q - 1}
            IN  IF hits = {} THEN <<>>
                ELSE w[CHOOSE k \in hits : \A j \in hits : j <= k].color]

Overlay(s, lw) ==
    [s EXCEPT !.pixels =
        [p \in DOMAIN s.pixels |-> IF lw[p + 1] = <<>> THEN s.pixels[p]
                                                        ELSE lw[p + 1]]]

\* apply a sequence of operations in order; a write outside the strip is
\* dropped (setPixelColorRGB)
ApplyWrites(s, ws) == Overlay(s, LastWrites(numPixels(s), ws))

\* clear_strip(strip)
clear_strip(s) ==
    ApplyWrites(s, [i \in 1..numPixels(s) |-> Set(i - 1, Black)] \o <<Show>>)

\* a slip in the reverse index: one pixel off
RestPixel_OffByOne(num_pixels, pixels_remaining, i, reverse) ==
    IF reverse THEN pixels_remaining - i
               ELSE (num_pixels - pixels_remaining) + i

\* the pixel the third loop of progress() writes in its pass i
RestPixel(num_pixels, pixels_remaining, i, reverse) ==
    IF reverse THEN (pixels_remaining - 1) - i
               ELSE (num_pixels - pixels_remaining) + i

\* the strip operations of progress(), in program order; percent * num_pixels
\* is upper_bar in hundredths
ProgressWrites(num_pixels, percent, base_color, progress_color, reverse) ==
    LET upper_bar == percent * num_pixels
        upper_whole == Trunc(upper_bar, 100)
        upper_remainder == upper_bar - upper_whole * 100
        nfull == IF upper_whole > 0 THEN upper_whole ELSE 0
        first == [i \in 1..nfull |->
                    Set(IF reverse THEN (num_pixels - 1) - (i - 1) ELSE i - 1,
                        color_brightness_correction(progress_color, Full))]
        tween == IF upper_remainder > 0
                 THEN << Set(IF reverse THEN (num_pixels - upper_whole) - 1
                                        ELSE upper_whole,
                             color_brightness_correction(
                                 mix_color(progress_color, base_color,
                                           upper_remainder, 100), Full)) >>
                 ELSE <<>>
        pixels_remaining == num_pixels - nfull - Len(tween)
        nrest == IF pixels_remaining > 0 THEN pixels_remaining ELSE 0
        rest == [i \in 1..nrest |->
                    Set(RestPixel(num_pixels, pixels_remaining, i - 1, reverse),
                        color_brightness_correction(base_color, Full))]
    IN  first \o tween \o rest \o <<Show>>

\* The colour pairs run() draws bars with, and for each pair and each
\* percent in -MemoSpan..100 what progress() leaves on a strip of LED_COUNT
\* pixels, computed once
BarColors ==
    << <<BED_HEATING_BASE_COLOR, BED_HEATING_PROGRESS_COLOR>>,
       <<HOTEND_HEATING_BASE_COLOR, HOTEND_HEATING_PROGRESS_COLOR>>,
       <<PRINT_BASE_COLOR, PRINT_PROGRESS_COLOR>> >>
ProgressMemo ==
    <<>> \o [k \in 1..(3 * (MemoSpan + 101)) |->
        LET j == ((k - 1) \div (MemoSpan + 101)) + 1
            percent == ((k - 1) % (MemoSpan + 101)) - MemoSpan
        IN  LastWrites(LED_COUNT,
                       ProgressWrites(LED_COUNT, percent, BarColors[j][1],
                                      BarColors[j][2], REVERSE))]

\* progress(strip, percent, base_color, progress_color)
progress(s, percent, base_color, progress_color) ==
    LET js == {j \in 1..3 : BarColors[j] = <<base_color, progress_color>>}
        s1 == setBrightness(s, LED_BRIGHTNESS)
    IN  IF js # {} /\ numPixels(s) = LED_COUNT /\ percent \in (0 - MemoSpan)..100
        THEN Overlay(s1, ProgressMemo[((CHOOSE j \in js : TRUE) - 1)
                                      * (MemoSpan + 101) + percent + MemoSpan + 1])
        ELSE ApplyWrites(s1, ProgressWrites(numPixels(s), percent, base_color,
                                            progress_color, REVERSE))

\* ------------------------------------------------------------------------
\* Animations (the buffer and brightness they leave behind)
\* ------------------------------------------------------------------------
\* the brightness levels fade() steps through: range(LED_BRIGHTNESS), then
\* range(LED_BRIGHTNESS, -1, -1)
FadeLevels ==
    [k \in 1..(2 * LED_BRIGHTNESS + 1) |->
        IF k <= LED_BRIGHTNESS THEN k - 1 ELSE 2 * LED_BRIGHTNESS + 1 - k]

\* fade(strip, color, speed): the pixels get the raw colour, the brightness
\* ends on the last level of the ramp down
fade(s, color) ==
    setBrightness(
        ApplyWrites(s, [i \in 1..numPixels(s) |-> Set(i - 1, color)] \o <<Show>>),
        FadeLevels[Len(FadeLevels)])

\* the strip operations of chase(), in program order: the outer loop runs i
\* over range(n + 1) (reversed in reverse mode), the inner loop writes one
\* pixel and flushes
ChaseWrites(n, color, reverse) ==
    [k \in 1..(2 * (n + 1) * n) |->
        LET w == (k - 1) \div 2
            step == w \div n
            pixel == w % n
            i == IF reverse THEN n - step ELSE step
        IN  IF k % 2 = 0 THEN Show
            ELSE Set(pixel,
                     IF i = pixel THEN color_brightness_correction(color, Full)
                                  ELSE Black)]

\* what the chase run() plays leaves on the strip (entry 1 forward, entry 2
\* reverse), computed once
PausedChaseMemo ==
    << LastWrites(LED_COUNT, ChaseWrites(LED_COUNT, PAUSED_COLOR, FALSE)),
       LastWrites(LED_COUNT, ChaseWrites(LED_COUNT, PAUSED_COLOR, TRUE)) >>

\* chase(strip, color, reverse)
chase(s, color, reverse) ==
    LET s0 == setBrightness(s, LED_BRIGHTNESS)
        s1 == IF color = PAUSED_COLOR /\ numPixels(s) = LED_COUNT
              THEN Overlay(s0, PausedChaseMemo[IF reverse THEN 2 ELSE 1])
              ELSE ApplyWrites(s0, ChaseWrites(numPixels(s), color, reverse))
    IN  IF reverse THEN clear_strip(s1) ELSE s1

\* bounce(strip, color)
bounce(s, color) == chase(chase(s, color, FALSE), color, TRUE)

\* the strip operations of chase_ghost(), in program order; the brightness
\* of the four-pixel window is LED_BRIGHTNESS/4 times 1..4 (quarter units)
ChaseGhostWrites(n, color, reverse) ==
    [k \in 1..(2 * (n + 5) * n) |->
        LET w == (k - 1) \div 2
            step == w \div n
            pixel == w % n
            i == IF reverse THEN (n + 4) - step ELSE step
            b4 == IF i = pixel THEN (IF reverse THEN Full \div 4 ELSE Full)
                  ELSE IF i - 1 = pixel
                       THEN (IF reverse THEN (Full \div 4) * 2 ELSE (Full \div 4) * 3)
                  ELSE IF i - 2 = pixel
                       THEN (IF reverse THEN (Full \div 4) * 3 ELSE (Full \div 4) * 2)
                  ELSE IF i - 3 = pixel
                       THEN (IF reverse THEN Full ELSE Full \div 4)
                  ELSE 0
        IN  IF k % 2 = 0 THEN Show
            ELSE Set(pixel,
                     IF b4 = 0 THEN Black
                               ELSE color_brightness_correction(color, b4))]

\* what the ghost chase run() plays leaves on the strip (entry 1 forward,
\* entry 2 reverse), computed once
CompleteGhostMemo ==
    << LastWrites(LED_COUNT, ChaseGhostWrites(LED_COUNT, COMPLETE_COLOR, FALSE)),
       LastWrites(LED_COUNT, ChaseGhostWrites(LED_COUNT, COMPLETE_COLOR, TRUE)) >>

\* chase_ghost(strip, color, reverse)
chase_ghost(s, color, reverse) ==
    LET s0 == setBrightness(s, LED_BRIGHTNESS)
        s1 == IF color = COMPLETE_COLOR /\ numPixels(s) = LED_COUNT
              THEN Overlay(s0, CompleteGhostMemo[IF reverse THEN 2 ELSE 1])
              ELSE ApplyWrites(s0, ChaseGhostWrites(numPixels(s), color, reverse))
    IN  IF reverse THEN clear_strip(s1) ELSE s1

\* ghost_bounce(strip, color)
ghost_bounce(s, color) == chase_ghost(chase_ghost(s, color, FALSE), color, TRUE)

\* ------------------------------------------------------------------------
\* Status queries
\* ------------------------------------------------------------------------
\* what printer_state() returns for a response without the expected keys
NoState == "False"

\* the responses to the print_stats query: a state, or no such key
StateResponses ==
    {"printing", "standby", "paused", "error", "complete", "cancelled",
     "<missing keys>"}

\* printer_state(): the state, or False on KeyError
printer_state(resp) == IF resp = "<missing keys>" THEN NoState ELSE resp

\* the responses to the device_power query
PowerResponses == {"on", "off", "<missing keys>"}

\* power_status(): the status, KeyError escapes
power_status(resp) ==
    IF resp = "<missing keys>"
    THEN [err |-> "KeyError", val |-> "none"]
    ELSE [err |-> "", val |-> resp]

BedTemps == {30, 99, 100}
ExtruderTemps == {30, 100}
Targets == {0, 100}
\* display_status.progress, in thousandths
Progress == {0, 550, 1000}

\* the responses to the heater_bed/extruder/display_status query
Snapshots ==
    [ok : {TRUE}, bed_temp : BedTemps, bed_target : Targets,
     extruder_temp : ExtruderTemps, extruder_target : Targets,
     progress : Progress]
    \cup
    [ok : {FALSE}, bed_temp : {0}, bed_target : {0},
     extruder_temp : {0}, extruder_target : {0}, progress : {0}]

\* the snapshot handed to a tick that does not query it
AnySnapshot == CHOOSE d \in Snapshots : ~d.ok

\* heating_percent(temp, target, base_temp)
heating_percent(temp, target, base_temp) ==
    IF target = 0 THEN [err |-> "", val |-> 0]
    ELSE IF target - base_temp = 0 THEN [err |-> "ZeroDivisionError", val |-> 0]
    ELSE [err |-> "", val |-> Floor((temp - base_temp) * 100, target - base_temp)]

\* printing_stats_ is assigned before every read of a tick: between ticks
\* the model keeps it only for a tick that called printing_stats()
NoStats ==
    [bed |-> [temp |-> 0, heating_percent |-> 0],
     extruder |-> [temp |-> 0, heating_percent |-> 0],
     printing |-> [done_percent |-> 0]]

\* printing_stats(base_temps) on the response data
printing_stats(data, base) ==
    LET bed_base_temp == IF base # <<>> THEN base[1] ELSE 0
        extruder_base_temp == IF base # <<>> THEN base[2] ELSE 0
        bed == heating_percent(data.bed_temp, data.bed_target, bed_base_temp)
        ext == heating_percent(data.extruder_temp, data.extruder_target,
                               extruder_base_temp)
    IN  IF ~data.ok THEN [err |-> "KeyError", val |-> NoStats]
        ELSE IF bed.err # "" THEN [err |-> bed.err, val |-> NoStats]
        ELSE IF ext.err # "" THEN [err |-> ext.err, val |-> NoStats]
        ELSE [err |-> "",
              val |-> [bed |-> [temp |-> data.bed_temp,
                                heating_percent |-> bed.val],
                       extruder |-> [temp |-> data.extruder_temp,
                                     heating_percent |-> ext.val],
                       printing |-> [done_percent |-> Round(data.progress, 10)]]]

\* ------------------------------------------------------------------------
\* The controller loop run()
\* ------------------------------------------------------------------------
VARIABLES
    strip,              \* the Adafruit_NeoPixel object: pixels, brightness
    shutdown_counter,   \* run(): shutdown_counter
    idle_timer,         \* run(): idle_timer
    old_state,          \* run(): old_state
    base_temps,         \* run(): base_temps, <<>> or <<bed, extruder>>
    printing_stats_,    \* what printing_stats() returned in the last tick
    pc,                 \* "sleep": in time.sleep(2); "exited": run() left
    err,                \* the exception that left run(), "" if none
    calls,              \* the calls the last tick made, in program order
    power_,             \* what power_status() returned in the last tick
    streak,             \* history: qualifying complete ticks in a row
    offs,               \* history: power-off calls during the streak
    standby_ticks,      \* history: ticks so far if all saw standby, else -1
    consec,             \* history: complete ticks with power on in a row
    targets_,           \* the heater targets printing_stats() read in the last tick
    job,                \* the tick in progress, when run step by step
    probe               \* inputs and result of the function under study

vars == <<strip, shutdown_counter, idle_timer, old_state, base_temps,
          printing_stats_, pc, err, calls, power_, streak, offs,
          standby_ticks, consec, targets_, job, probe>>

NoProbe == [op |-> "none"]

\* no heater targets read
NoTargets == [bed |-> 0 - 1, extruder |-> 0 - 1]

\* no tick in progress
NoJob == [plan |-> <<>>]

InitRun ==
    /\ strip = NewStrip(LED_COUNT)
    /\ shutdown_counter = 0
    /\ idle_timer = 0
    /\ old_state = ""
    /\ base_temps = <<>>
    /\ printing_stats_ = NoStats
    /\ pc = "sleep"
    /\ err = ""
    /\ calls = <<>>
    /\ power_ = "none"
    /\ streak = 0
    /\ offs = 0
    /\ standby_ticks = 0
    /\ consec = 0
    /\ targets_ = NoTargets
    /\ job = NoJob

Init == InitRun /\ probe = NoProbe

\* the locals of one pass through the loop body
Locals ==
    [strip |-> strip, shutdown_counter |-> shutdown_counter,
     idle_timer |-> idle_timer, base_temps |-> base_temps,
     printing_stats_ |-> NoStats, calls |-> <<>>,
     power |-> "none", err |-> ""]

Call(L, name) == [L EXCEPT !.calls = Append(@, name)]

Raise(L, e) == [L EXCEPT !.err = e]

\* a slip in the guard: the baseline is taken again on every printing tick
CaptureBase_Always(base, stats) == <<stats.bed.temp, stats.extruder.temp>>

\* if not base_temps: base_temps = [bed temp, extruder temp]
CaptureBase(base, stats) ==
    IF base = <<>> THEN <<stats.bed.temp, stats.extruder.temp>> ELSE base

\* a slip in the threshold: the extruder bar starts a percent early
BedNearlyDone_Early(pct) == pct >= 98

\* printing_stats_['bed']['heating_percent'] >= 99, the bed condition of
\* the extruder bar
BedNearlyDone(pct) == pct >= 99

\* a slip in the guard: the idle animations never stop
StillAnimating_Always(timer) == timer < IDLE_TIMEOUT \/ timer >= IDLE_TIMEOUT

\* idle_timer < IDLE_TIMEOUT, the condition of the idle animations
StillAnimating(timer) == timer < IDLE_TIMEOUT

\* a slip in the comparison: the timeout fires on reaching IDLE_TIMEOUT
TimedOut_OnEqual(timer) == timer >= IDLE_TIMEOUT

\* idle_timer > IDLE_TIMEOUT
TimedOut(timer) == timer > IDLE_TIMEOUT

\* a slip in the threshold: one tick late
ShutdownDue_Late(counter) == SHUTDOWN_WHEN_COMPLETE /\ counter > 10

\* SHUTDOWN_WHEN_COMPLETE and shutdown_counter > 9
ShutdownDue(counter) == SHUTDOWN_WHEN_COMPLETE /\ counter > 9

\* a slip in the connective: either heater cool is enough
CoolEnough_Either(bed_temp, extruder_temp) ==
    bed_temp < BED_TEMP_FOR_OFF \/ extruder_temp < HOTEND_TEMP_FOR_OFF

\* bed_temp < BED_TEMP_FOR_OFF and extruder_temp < HOTEND_TEMP_FOR_OFF
CoolEnough(bed_temp, extruder_temp) ==
    bed_temp < BED_TEMP_FOR_OFF /\ extruder_temp < HOTEND_TEMP_FOR_OFF

\* the four independent if statements of the printing branch
RenderBed(L) ==
    LET st == L.printing_stats_
    IN  IF st.printing.done_percent < 1 /\ st.bed.heating_percent < 100
        THEN Call([L EXCEPT !.strip = progress(@, st.bed.heating_percent,
                                               BED_HEATING_BASE_COLOR,
                                               BED_HEATING_PROGRESS_COLOR)],
                  "progress_bed")
        ELSE L

RenderExtruder(L) ==
    LET st == L.printing_stats_
    IN  IF /\ st.printing.done_percent < 1
           /\ st.extruder.heating_percent < 100
           /\ BedNearlyDone(st.bed.heating_percent)
        THEN Call([L EXCEPT !.strip = progress(@, st.extruder.heating_percent,
                                               HOTEND_HEATING_BASE_COLOR,
                                               HOTEND_HEATING_PROGRESS_COLOR)],
                  "progress_extruder")
        ELSE L

RenderGap(L) ==
    LET st == L.printing_stats_
    IN  IF /\ st.printing.done_percent = 0
           /\ st.extruder.heating_percent >= 100
           /\ st.bed.heating_percent >= 100
        THEN Call([L EXCEPT !.strip = clear_strip(@)], "clear_strip")
        ELSE L

RenderPrint(L) ==
    LET st == L.printing_stats_
    IN  IF 0 < st.printing.done_percent /\ st.printing.done_percent < 100
        THEN Call([L EXCEPT !.strip = progress(@, st.printing.done_percent,
                                               PRINT_BASE_COLOR,
                                               PRINT_PROGRESS_COLOR)],
                  "progress_print")
        ELSE L

\* if printer_state_ == 'printing': ...
PrintingBranch(L, printer_state_, snap) ==
    IF printer_state_ # "printing" THEN L
    ELSE
        LET r == printing_stats(snap, L.base_temps)
            L1 == Call(L, "printing_stats")
        IN  IF r.err # "" THEN Raise(L1, r.err)
            ELSE
                LET L2 == [L1 EXCEPT
                             !.printing_stats_ = r.val,
                             !.base_temps = CaptureBase(@, r.val)]
                IN  RenderPrint(RenderGap(RenderExtruder(RenderBed(L2))))

\* a slip in the test: a failed state query is shown as an error
ShowsError_OnFailure(printer_state_) == printer_state_ \in {"error", NoState}

\* printer_state_ == 'error'
ShowsError(printer_state_) == printer_state_ = "error"

\* the standby, paused and error branches
IdleBranches(L, printer_state_) ==
    IF L.err # "" THEN L
    ELSE
        LET L1 == IF printer_state_ = "standby" /\ StillAnimating(L.idle_timer)
                  THEN Call([L EXCEPT !.strip = fade(@, STANDBY_COLOR)], "fade")
                  ELSE L
            L2 == IF printer_state_ = "paused" /\ StillAnimating(L1.idle_timer)
                  THEN Call([L1 EXCEPT !.strip = bounce(@, PAUSED_COLOR)], "bounce")
                  ELSE L1
        IN  IF ShowsError(printer_state_) /\ StillAnimating(L2.idle_timer)
            THEN Call([L2 EXCEPT !.strip = fade(@, ERROR_COLOR)], "fade")
            ELSE L2

\* if SHUTDOWN_WHEN_COMPLETE and shutdown_counter > 9: ...
Shutdown(L, snap) ==
    IF ~ShutdownDue(L.shutdown_counter) THEN L
    ELSE
        LET L1 == Call([L EXCEPT !.shutdown_counter = 0], "printing_stats")
            r == printing_stats(snap, L1.base_temps)
        IN  IF r.err # "" THEN Raise(L1, r.err)
            ELSE
                LET L2 == [L1 EXCEPT !.printing_stats_ = r.val]
                IN  IF CoolEnough(r.val.bed.temp, r.val.extruder.temp)
                    THEN Call(Call([L2 EXCEPT !.strip = clear_strip(@)],
                                   "clear_strip"),
                              "power_off")
                    ELSE L2

\* if printer_state_ == 'complete': ...
CompleteBranch(L, printer_state_, pw, snap) ==
    IF L.err # "" \/ printer_state_ # "complete" THEN L
    ELSE
        LET L1 == Call([L EXCEPT !.base_temps = <<>>], "power_status")
            r == power_status(pw)
        IN  IF r.err # "" THEN Raise(L1, r.err)
            ELSE IF r.val # "on" THEN [L1 EXCEPT !.power = r.val]
            ELSE Shutdown(
                    Call([L1 EXCEPT !.power = r.val,
                                    !.strip = ghost_bounce(@, COMPLETE_COLOR),
                                    !.shutdown_counter = @ + 1],
                         "ghost_bounce"),
                    snap)

\* the idle-timer update at the end of the loop body
IdleTimer(L, printer_state_) ==
    IF L.err # "" THEN L
    ELSE IF printer_state_ \notin {"printing", "complete"}
            /\ old_state = printer_state_
    THEN LET L1 == [L EXCEPT !.idle_timer = @ + 2]
         IN  IF TimedOut(L1.idle_timer)
             THEN Call([L1 EXCEPT !.strip = clear_strip(@)], "clear_strip")
             ELSE L1
    ELSE [L EXCEPT !.idle_timer = 0]

\* one pass through the body of while True
Body(printer_state_, snap, pw) ==
    IdleTimer(
        CompleteBranch(
            IdleBranches(PrintingBranch(Locals, printer_state_, snap),
                         printer_state_),
            printer_state_, pw, snap),
        printer_state_)

\* a complete tick that counts for the shutdown scenario
Qualifies(printer_state_, snap, pw) ==
    /\ printer_state_ = "complete"
    /\ pw = "on"
    /\ snap.ok
    /\ snap.bed_temp < BED_TEMP_FOR_OFF
    /\ snap.extruder_temp < HOTEND_TEMP_FOR_OFF

NextStreak(printer_state_, snap, pw) ==
    IF ~Qualifies(printer_state_, snap, pw) THEN 0
    ELSE IF streak \in 1..9 THEN streak + 1
    ELSE IF shutdown_counter = 0 THEN 1
    ELSE 0

CountOff(L) == Cardinality({k \in DOMAIN L.calls : L.calls[k] = "power_off"})

\* the complete ticks with power on in a row, counted up to ten
NextConsec(printer_state_, L) ==
    IF printer_state_ = "complete" /\ L.power = "on"
    THEN (IF consec < 10 THEN consec + 1 ELSE 10)
    ELSE 0

\* the heater targets in the response a tick handed to printing_stats()
TargetsSeen(L, snap) ==
    IF snap.ok /\ \E k \in DOMAIN L.calls : L.calls[k] = "printing_stats"
    THEN [bed |-> snap.bed_target, extruder |-> snap.extruder_target]
    ELSE NoTargets

\* what a pass through the loop body leaves behind: L are the locals at its
\* end, s is the strip at its end
Commit(L, printer_state_, snap, pw, s) ==
       LET ns == NextStreak(printer_state_, snap, pw)
       IN  /\ strip' = s
           /\ shutdown_counter' = L.shutdown_counter
           /\ idle_timer' = L.idle_timer
           /\ base_temps' = L.base_temps
           /\ printing_stats_' = L.printing_stats_
           /\ calls' = L.calls
           /\ power_' = L.power
           /\ err' = L.err
           /\ pc' = IF L.err # "" THEN "exited" ELSE "sleep"
           /\ old_state' = IF L.err # "" THEN old_state ELSE printer_state_
           /\ streak' = ns
           /\ offs' = IF ns = 0 THEN 0
                      ELSE (IF ns = 1 THEN 0 ELSE offs) + CountOff(L)
           /\ standby_ticks' =
                  IF standby_ticks >= 0 /\ printer_state_ = "standby"
                  THEN standby_ticks + 1 ELSE 0 - 1
           /\ consec' = NextConsec(printer_state_, L)
           /\ targets_' = TargetsSeen(L, snap)

\* one iteration of the loop: the queries answer resp, snap and pw; cap
\* bounds the idle timer
Tick(resp, snap, pw, cap) ==
    /\ pc = "sleep"
    /\ \E L \in {Body(printer_state(resp), snap, pw)} :
           /\ L.idle_timer <= cap
           /\ Commit(L, printer_state(resp), snap, pw, L.strip)
    /\ UNCHANGED <<job, probe>>

\* the snapshots drawn for the temperature re-query of a complete tick
CompleteSnapshots == {d \in Snapshots : d.bed_target = 0 /\ d.extruder_target = 0
                                        /\ d.progress = 0}

PollPrinting(cap) == \E snap \in Snapshots : Tick("printing", snap, "on", cap)
PollStandby(cap) == Tick("standby", AnySnapshot, "on", cap)
PollPaused(cap) == Tick("paused", AnySnapshot, "on", cap)
PollError(cap) == Tick("error", AnySnapshot, "on", cap)
PollComplete(cap) ==
    \E snap \in CompleteSnapshots, pw \in PowerResponses :
        Tick("complete", snap, pw, cap)
PollOther(cap) == Tick("cancelled", AnySnapshot, "on", cap)
PollNoState(cap) == Tick("<missing keys>", AnySnapshot, "on", cap)

\* the full controller: every state, every snapshot
FullCap == 2 * MaxIdleTicks

Next ==
    \/ PollPrinting(FullCap)
    \/ PollStandby(FullCap)
    \/ PollPaused(FullCap)
    \/ PollError(FullCap)
    \/ PollComplete(FullCap)
    \/ PollOther(FullCap)
    \/ PollNoState(FullCap)

Spec == Init /\ [][Next]_vars

\* the controller with the idle timer free to run past IDLE_TIMEOUT: every
\* state, one snapshot, power on or off
IdleCap == IDLE_TIMEOUT + 2 * IdleExtraTicks

IdleSnapshots ==
    {d \in Snapshots : /\ d.ok
                       /\ d.bed_temp = 30 /\ d.extruder_temp = 30
                       /\ d.bed_target = 100 /\ d.extruder_target = 100
                       /\ d.progress = 550}

IdlePrinting == \E snap \in IdleSnapshots : Tick("printing", snap, "on", IdleCap)
IdleComplete ==
    \E snap \in IdleSnapshots, pw \in {"on", "off"} :
        Tick("complete", snap, pw, IdleCap)

NextIdle ==
    \/ PollStandby(IdleCap)
    \/ PollPaused(IdleCap)
    \/ PollError(IdleCap)
    \/ PollOther(IdleCap)
    \/ PollNoState(IdleCap)
    \/ IdlePrinting
    \/ IdleComplete

SpecIdle == Init /\ [][NextIdle]_vars

\* ------------------------------------------------------------------------
\* The controller loop, one strip operation at a time
\* ------------------------------------------------------------------------
Bright(b) == [op |-> "brightness", pixel |-> b, color |-> Black]

\* a call that does not touch the strip (a query, the power-off request)
Request == [op |-> "request", pixel |-> 0 - 1, color |-> Black]

\* the operations of clear_strip()
ClearOps(n) == [i \in 1..n |-> Set(i - 1, Black)] \o <<Show>>

\* the operations of fade(), in program order: the colour is written and
\* flushed, then every level of the ramp is set and flushed
FadeOps(n, color) ==
    [i \in 1..n |-> Set(i - 1, color)] \o <<Show>> \o
    [k \in 1..(2 * Len(FadeLevels)) |->
        IF k % 2 = 1 THEN Bright(FadeLevels[(k + 1) \div 2]) ELSE Show]

\* the operations of chase() and bounce()
ChaseOps(n, color, reverse) ==
    <<Bright(LED_BRIGHTNESS)>> \o ChaseWrites(n, color, reverse) \o
    (IF reverse THEN ClearOps(n) ELSE <<>>)

BounceOps(n, color) == ChaseOps(n, color, FALSE) \o ChaseOps(n, color, TRUE)

\* the operations of chase_ghost() and ghost_bounce()
ChaseGhostOps(n, color, reverse) ==
    <<Bright(LED_BRIGHTNESS)>> \o ChaseGhostWrites(n, color, reverse) \o
    (IF reverse THEN ClearOps(n) ELSE <<>>)

GhostBounceOps(n, color) ==
    ChaseGhostOps(n, color, FALSE) \o ChaseGhostOps(n, color, TRUE)

\* the operations of progress()
ProgressOps(n, percent, base_color, progress_color) ==
    <<Bright(LED_BRIGHTNESS)>> \o
    ProgressWrites(n, percent, base_color, progress_color, REVERSE)

\* the operations of the animations run() plays, computed once
StandbyFadeOps == <<>> \o FadeOps(LED_COUNT, STANDBY_COLOR)
ErrorFadeOps == <<>> \o FadeOps(LED_COUNT, ERROR_COLOR)
PausedBounceOps == <<>> \o BounceOps(LED_COUNT, PAUSED_COLOR)
CompleteGhostBounceOps == <<>> \o GhostBounceOps(LED_COUNT, COMPLETE_COLOR)
ClearStripOps == <<>> \o ClearOps(LED_COUNT)

\* the operations of one call run() makes in a tick that observed
\* printer_state_ and read the statistics st
CallOps(name, printer_state_, st) ==
    IF name = "fade"
    THEN (IF printer_state_ = "standby" THEN StandbyFadeOps ELSE ErrorFadeOps)
    ELSE IF name = "bounce" THEN PausedBounceOps
    ELSE IF name = "ghost_bounce" THEN CompleteGhostBounceOps
    ELSE IF name = "clear_strip" THEN ClearStripOps
    ELSE IF name = "progress_bed"
    THEN ProgressOps(LED_COUNT, st.bed.heating_percent,
                     BED_HEATING_BASE_COLOR, BED_HEATING_PROGRESS_COLOR)
    ELSE IF name = "progress_extruder"
    THEN ProgressOps(LED_COUNT, st.extruder.heating_percent,
                     HOTEND_HEATING_BASE_COLOR, HOTEND_HEATING_PROGRESS_COLOR)
    ELSE IF name = "progress_print"
    THEN ProgressOps(LED_COUNT, st.printing.done_percent,
                     PRINT_BASE_COLOR, PRINT_PROGRESS_COLOR)
    ELSE <<Request>>

\* one strip operation
ApplyOp(s, o) ==
    IF o.op = "set" THEN setPixelColorRGB(s, o.pixel, o.color)
    ELSE IF o.op = "brightness" THEN setBrightness(s, o.pixel)
    ELSE s

\* the operations of the call the tick in progress is in
JobOps == CallOps(job.plan[job.ci], job.printer_state_, job.L.printing_stats_)

\* the operation performed last
LastOp == JobOps[job.k]

\* the tick in progress has performed its last operation
JobDone == job.ci = Len(job.plan) /\ job.k = Len(JobOps)

\* the loop wakes up and sends the state query; the calls the answers lead
\* to are the plan of the tick
Begin(resp, snap, pw, cap) ==
    /\ pc = "sleep"
    /\ \E L \in {Body(printer_state(resp), snap, pw)} :
           /\ L.idle_timer <= cap
           /\ job' = [plan |-> <<"printer_state">> \o L.calls, ci |-> 1, k |-> 1,
                      printer_state_ |-> printer_state(resp), snap |-> snap,
                      pw |-> pw, L |-> L]
    /\ pc' = "busy"
    /\ UNCHANGED <<strip, shutdown_counter, idle_timer, old_state, base_temps,
                   printing_stats_, err, calls, power_, streak, offs,
                   standby_ticks, consec, targets_, probe>>

\* the next operation of the tick in progress
Step ==
    /\ pc = "busy"
    /\ ~JobDone
    /\ IF job.k < Len(JobOps)
       THEN /\ strip' = ApplyOp(strip, JobOps[job.k + 1])
            /\ job' = [job EXCEPT !.k = @ + 1]
       ELSE /\ strip' = ApplyOp(strip,
                            CallOps(job.plan[job.ci + 1], job.printer_state_,
                                    job.L.printing_stats_)[1])
            /\ job' = [job EXCEPT !.ci = @ + 1, !.k = 1]
    /\ UNCHANGED <<shutdown_counter, idle_timer, old_state, base_temps,
                   printing_stats_, pc, err, calls, power_, streak, offs,
                   standby_ticks, consec, targets_, probe>>

\* the tick in progress ends: the loop goes to sleep, or an exception one
\* of its calls raised leaves run()
End ==
    /\ pc = "busy"
    /\ JobDone
    /\ Commit(job.L, job.printer_state_, job.snap, job.pw, strip)
    /\ job' = NoJob
    /\ UNCHANGED probe

\* a handler that forgets the strip
OnKeyboardInterrupt_Pass(s) == s

\* except KeyboardInterrupt: clear_strip(strip)
OnKeyboardInterrupt(s) == clear_strip(s)

\* the calls the tick in progress has made so far
CallsSoFar == IF pc = "busy" THEN SubSeq(job.plan, 2, job.ci) ELSE <<>>

\* KeyboardInterrupt inside the try block: in the sleep, in a query, or
\* between two operations of an animation
Interrupt ==
    /\ pc \in {"sleep", "busy"}
    /\ ~(pc = "busy" /\ JobDone /\ job.L.err # "")
    /\ strip' = OnKeyboardInterrupt(strip)
    /\ calls' = Append(CallsSoFar, "clear_strip")
    /\ err' = "KeyboardInterrupt"
    /\ pc' = "exited"
    /\ job' = NoJob
    /\ UNCHANGED <<shutdown_counter, idle_timer, old_state, base_temps,
                   printing_stats_, power_, streak, offs, standby_ticks,
                   consec, targets_, probe>>

\* the states and snapshots the stepwise controller is run on
StepCap == 2 * MaxStepIdleTicks

StepSnapshots ==
    {d \in Snapshots : /\ d.ok
                       /\ d.bed_temp = 30 /\ d.extruder_temp = 30
                       /\ d.bed_target = 0 /\ d.extruder_target = 0
                       /\ d.progress \in {0, 550}}

BeginPrinting == \E snap \in StepSnapshots : Begin("printing", snap, "on", StepCap)
BeginStandby == Begin("standby", AnySnapshot, "on", StepCap)
BeginPaused == Begin("paused", AnySnapshot, "on", StepCap)
BeginError == Begin("error", AnySnapshot, "on", StepCap)
BeginComplete ==
    \E snap \in {d \in StepSnapshots : d.progress = 0} :
        Begin("complete", snap, "on", StepCap)

NextSteps ==
    \/ BeginPrinting
    \/ BeginStandby
    \/ BeginPaused
    \/ BeginError
    \/ BeginComplete
    \/ Step
    \/ End
    \/ Interrupt

SpecSteps == Init /\ [][NextSteps]_vars

\* ------------------------------------------------------------------------
\* Properties of the controller loop
\* ------------------------------------------------------------------------
AllBlack(s) == \A p \in DOMAIN s.pixels : s.pixels[p] = Black

Has(cs, name) == \E k \in DOMAIN cs : cs[k] = name

Renders == {"progress_bed", "progress_extruder", "clear_strip", "progress_print"}

NumRenders(cs) == Cardinality({k \in DOMAIN cs : cs[k] \in Renders})

\* C1: ten complete ticks in a row, starting with shutdown_counter = 0, with
\* power on and bed and extruder below the off-thresholds, issue exactly one
\* power-off, on the tenth tick, and leave shutdown_counter at 0; the first
\* nine issue none and count up.
C1_OnePowerOffOnTenthTick ==
    /\ streak = 10 =>
          /\ offs = 1
          /\ shutdown_counter = 0
          /\ calls # <<>> /\ calls[Len(calls)] = "power_off"
    /\ streak \in 1..9 => offs = 0 /\ shutdown_counter = streak

C1_Witness == streak = 10 /\ offs = 1 /\ old_state = "complete"

\* C2: a tick issues power-off only if it observed complete with power on,
\* shutdown-on-complete is enabled, shutdown_counter went from 9 past 9 and
\* back to 0 in this tick, the temperatures queried in this tick are below
\* both off-thresholds, and the call right before power-off is the clear of
\* the strip, which leaves every pixel (0,0,0).
C2_PowerOffOnlyWhenDue ==
    [][Has(calls', "power_off") =>
          /\ old_state' = "complete"
          /\ power_' = "on"
          /\ SHUTDOWN_WHEN_COMPLETE
          /\ shutdown_counter = 9 /\ shutdown_counter' = 0
          /\ Has(calls', "printing_stats")
          /\ printing_stats_'.bed.temp < BED_TEMP_FOR_OFF
          /\ printing_stats_'.extruder.temp < HOTEND_TEMP_FOR_OFF
          /\ \A k \in DOMAIN calls' :
                calls'[k] = "power_off" => k > 1 /\ calls'[k - 1] = "clear_strip"
          /\ AllBlack(strip')]_vars

C2_Witness ==
    /\ Has(calls, "power_off")
    /\ power_ = "on"
    /\ AllBlack(strip)
    /\ printing_stats_.bed.temp < BED_TEMP_FOR_OFF

\* C5: once base_temps holds a pair, a tick either keeps that pair or clears
\* it; no tick replaces it by another pair, whatever the snapshot reports.
C5_BaselineKeptUntilCleared ==
    [][base_temps # <<>> => base_temps' \in {base_temps, <<>>}]_vars

C5_Witness ==
    /\ old_state = "printing"
    /\ base_temps # <<>>
    /\ Has(calls, "printing_stats")
    /\ err = ""
    /\ printing_stats_.bed.temp > base_temps[1]

\* C6 (as claimed): a tick that observes a state other than printing right
\* after a tick that observed printing leaves base_temps empty.
C6_BaselineClearedAfterPrinting ==
    [][(old_state = "printing" /\ old_state' # "printing") => base_temps' = <<>>]_vars

\* C7 (as claimed): a printing tick performs at most one of the four
\* rendering actions.
C7_AtMostOneRender ==
    (old_state = "printing" /\ Has(calls, "printing_stats")) => NumRenders(calls) <= 1

\* C7 (amended): a printing tick performs at most one rendering action,
\* except that with print progress below 1, bed heating percent exactly 99
\* and extruder heating percent below 100 it draws the bed bar and then the
\* extruder bar, and the strip is left showing the extruder bar.
C7_OneRenderExceptBedAt99 ==
    (old_state = "printing" /\ Has(calls, "printing_stats") /\ err = "") =>
        \/ NumRenders(calls) <= 1
        \/ /\ calls = <<"printing_stats", "progress_bed", "progress_extruder">>
           /\ printing_stats_.printing.done_percent < 1
           /\ printing_stats_.bed.heating_percent = 99
           /\ printing_stats_.extruder.heating_percent < 100
           /\ strip = progress(strip, printing_stats_.extruder.heating_percent,
                               HOTEND_HEATING_BASE_COLOR,
                               HOTEND_HEATING_PROGRESS_COLOR)

C7_Witness ==
    /\ old_state = "printing"
    /\ calls = <<"printing_stats", "progress_bed", "progress_extruder">>
    /\ printing_stats_.bed.heating_percent = 99

\* C10 (as claimed): no query response that lacks the expected keys ends
\* the loop: run() is never left by a KeyError.
C10_MissingKeysNeverEndLoop == ~(pc = "exited" /\ err = "KeyError")

\* C3 (as claimed): when every tick since startup observed standby, idle_timer
\* exceeds IDLE_TIMEOUT within 151 ticks.
C3_TimeoutWithin151Ticks == standby_ticks >= 151 => idle_timer > IDLE_TIMEOUT

\* C3 (amended): when every tick since startup observed standby, idle_timer is
\* 2 * (ticks - 1): it is at most IDLE_TIMEOUT through tick 151, with one fade
\* per tick and no clear, and first exceeds IDLE_TIMEOUT on tick 152, where
\* the idle-timeout branch clears the strip and no fade is played.
C3_TimeoutOnTick152 ==
    /\ standby_ticks \in 1..151 =>
          /\ idle_timer = 2 * (standby_ticks - 1)
          /\ idle_timer <= IDLE_TIMEOUT
          /\ calls = <<"fade">>
    /\ standby_ticks = 152 =>
          /\ idle_timer = IDLE_TIMEOUT + 2
          /\ calls = <<"clear_strip">>
          /\ AllBlack(strip)

C3_Witness == standby_ticks = 152 /\ idle_timer > IDLE_TIMEOUT /\ AllBlack(strip)

\* C4: once idle_timer is above IDLE_TIMEOUT, a tick that observes the same
\* state standby, paused or error again starts no fade and no bounce, leaves
\* every pixel (0,0,0) and keeps the loop polling; and a tick sets idle_timer
\* back to 0 only if its state differs from the previous one or is printing
\* or complete.
C4_DarkWhileIdleTimedOut ==
    [][idle_timer > IDLE_TIMEOUT =>
          /\ (old_state' = old_state /\ old_state \in {"standby", "paused", "error"}) =>
                /\ ~Has(calls', "fade") /\ ~Has(calls', "bounce")
                /\ AllBlack(strip')
                /\ pc' = "sleep"
                /\ idle_timer' > IDLE_TIMEOUT
          /\ idle_timer' = 0 =>
                \/ old_state' # old_state
                \/ old_state' \in {"printing", "complete"}]_vars

C4_Witness ==
    /\ idle_timer >= IDLE_TIMEOUT + 4
    /\ old_state = "paused"
    /\ calls = <<"clear_strip">>
    /\ AllBlack(strip)

\* ------------------------------------------------------------------------
\* The pure functions, applied to inputs drawn by the initial state
\* ------------------------------------------------------------------------
RunUnchanged ==
    UNCHANGED <<strip, shutdown_counter, idle_timer, old_state, base_temps,
                printing_stats_, pc, err, calls, power_, streak, offs,
                standby_ticks, consec, targets_, job>>

MixColors ==
    {BED_HEATING_BASE_COLOR, BED_HEATING_PROGRESS_COLOR,
     HOTEND_HEATING_PROGRESS_COLOR, PRINT_BASE_COLOR, PRINT_PROGRESS_COLOR,
     STANDBY_COLOR, COMPLETE_COLOR, <<255, 255, 255>>}

InitMix ==
    /\ InitRun
    /\ probe \in [op : {"mix_color"}, colour1 : MixColors, colour2 : MixColors,
                  wn : 0..WeightDen, wd : {WeightDen}, done : {FALSE},
                  out : {Black}]

ApplyMix ==
    /\ probe.op = "mix_color" /\ ~probe.done
    /\ probe' = [probe EXCEPT
                    !.done = TRUE,
                    !.out = mix_color(probe.colour1, probe.colour2,
                                      probe.wn, probe.wd)]
    /\ RunUnchanged

SpecMix == InitMix /\ [][ApplyMix]_vars

InitProgress ==
    /\ InitRun
    /\ probe \in [op : {"progress"}, n : 1..MaxPixels, percent : 0..100,
                  reverse : BOOLEAN, base : {BED_HEATING_BASE_COLOR},
                  prog : {BED_HEATING_PROGRESS_COLOR}, done : {FALSE},
                  out : {<<>>}]

ApplyProgress ==
    /\ probe.op = "progress" /\ ~probe.done
    /\ probe' = [probe EXCEPT
                    !.done = TRUE,
                    !.out = <<>> \o ProgressWrites(probe.n, probe.percent,
                                                   probe.base, probe.prog,
                                                   probe.reverse)]
    /\ RunUnchanged

SpecProgress == InitProgress /\ [][ApplyProgress]_vars

InitHeating ==
    /\ InitRun
    /\ probe \in [op : {"heating_percent"}, temp : 0..MaxHeat,
                  target : 0..MaxHeat, base_temp : 0..MaxHeat, done : {FALSE},
                  out : {[err |-> "", val |-> 0]}]

ApplyHeating ==
    /\ probe.op = "heating_percent" /\ ~probe.done
    /\ probe' = [probe EXCEPT
                    !.done = TRUE,
                    !.out = heating_percent(probe.temp, probe.target,
                                            probe.base_temp)]
    /\ RunUnchanged

SpecHeating == InitHeating /\ [][ApplyHeating]_vars

\* chase() as a process: i and pixel are the loop variables, at is the next
\* statement (call, set, show, next, clear, done)
ChasePriors(n, reverse) ==
    IF reverse THEN {NewStrip(n)}
    ELSE {NewStrip(n),
          ApplyWrites(NewStrip(n),
                      ProgressWrites(n, 55, PRINT_BASE_COLOR,
                                     PRINT_PROGRESS_COLOR, REVERSE))}

InitChase ==
    /\ InitRun
    /\ \E n \in 1..MaxPixels, reverse \in BOOLEAN :
          \E prior \in ChasePriors(n, reverse) :
              probe = [op |-> "chase", n |-> n, reverse |-> reverse,
                       color |-> PAUSED_COLOR, i |-> 0, pixel |-> 0,
                       at |-> "call", strip |-> prior]

\* strip.setBrightness(LED_BRIGHTNESS); the outer loop takes its first value
ChaseStart ==
    /\ probe.op = "chase" /\ probe.at = "call"
    /\ probe' = [probe EXCEPT
                    !.strip = setBrightness(@, LED_BRIGHTNESS),
                    !.i = IF probe.reverse THEN probe.n ELSE 0,
                    !.pixel = 0,
                    !.at = "set"]
    /\ RunUnchanged

\* the colour the inner loop writes to pixel in step i
ChasePixelColor(i, pixel, color) ==
    IF i = pixel THEN color_brightness_correction(color, Full) ELSE Black

\* the body of the inner loop up to the write
ChaseSet ==
    /\ probe.op = "chase" /\ probe.at = "set"
    /\ probe' = [probe EXCEPT
                    !.strip = setPixelColorRGB(@, probe.pixel,
                                  ChasePixelColor(probe.i, probe.pixel,
                                                  probe.color)),
                    !.at = "show"]
    /\ RunUnchanged

\* strip.show(); time.sleep(0.01)
ChaseShow ==
    /\ probe.op = "chase" /\ probe.at = "show"
    /\ probe' = [probe EXCEPT !.at = "next"]
    /\ RunUnchanged

\* the loops advance: the next pixel, or the next value of i, or the end
ChaseNext ==
    /\ probe.op = "chase" /\ probe.at = "next"
    /\ probe' =
          IF probe.pixel < probe.n - 1
          THEN [probe EXCEPT !.pixel = @ + 1, !.at = "set"]
          ELSE IF probe.reverse /\ probe.i > 0
          THEN [probe EXCEPT !.i = @ - 1, !.pixel = 0, !.at = "set"]
          ELSE IF ~probe.reverse /\ probe.i < probe.n
          THEN [probe EXCEPT !.i = @ + 1, !.pixel = 0, !.at = "set"]
          ELSE [probe EXCEPT !.at = IF probe.reverse THEN "clear" ELSE "done"]
    /\ RunUnchanged

\* if reverse: clear_strip(strip)
ChaseClear ==
    /\ probe.op = "chase" /\ probe.at = "clear"
    /\ probe' = [probe EXCEPT !.strip = clear_strip(@), !.at = "done"]
    /\ RunUnchanged

NextChase == ChaseStart \/ ChaseSet \/ ChaseShow \/ ChaseNext \/ ChaseClear

SpecChase == InitChase /\ [][NextChase]_vars

\* C8 (as claimed): each channel of mix_color(A, B, w) is
\* round(A_i * w + B_i * (1 - w)) and lies in 0..255.
C8_MixIsWeightedMean ==
    (probe.op = "mix_color" /\ probe.done) =>
        \A i \in 1..3 :
            /\ probe.out[i] = Round(probe.colour1[i] * probe.wn
                                    + probe.colour2[i] * (probe.wd - probe.wn),
                                    probe.wd)
            /\ probe.out[i] \in 0..255

StepsAgreeWithTick ==
    [][(pc = "busy" /\ pc' # "busy" /\ err' # "KeyboardInterrupt")
           => strip' = job.L.strip]_vars

\* C11: a KeyboardInterrupt that arrives while the loop runs (in the sleep,
\* in a query, between two operations of an animation) ends the loop with a
\* clear: every pixel is (0,0,0), clear_strip is the last call, nothing of
\* the interrupted tick is left to do, and no step follows.
C11_InterruptEndsWithClear ==
    [][/\ err' = "KeyboardInterrupt" =>
              /\ pc' = "exited"
              /\ AllBlack(strip')
              /\ calls'[Len(calls')] = "clear_strip"
              /\ job' = NoJob
       /\ err = "KeyboardInterrupt" => UNCHANGED vars]_vars

\* an interrupt in the middle of the ramp of a fade
C11_Witness ==
    /\ err = "KeyboardInterrupt"
    /\ calls = <<"fade", "clear_strip">>
    /\ strip.brightness = 128
    /\ AllBlack(strip)

\* C12: heating_percent(temp, 0, base) is 0; for a target that is neither 0
\* nor base, heating_percent(temp, target, base) is the floor of
\* (temp - base) * 100 / (target - base), the integer q with
\* q <= (temp - base) * 100 / (target - base) < q + 1: 0 at temp = base, 100
\* at temp = target, and above 100 when temp overshoots the target.
C12_HeatingPercentIsFloor ==
    (probe.op = "heating_percent" /\ probe.done) =>
        LET num == (probe.temp - probe.base_temp) * 100
            den == probe.target - probe.base_temp
            q == probe.out.val
        IN  /\ probe.target = 0 => probe.out = [err |-> "", val |-> 0]
            /\ (probe.target # 0 /\ den # 0) =>
                  /\ probe.out.err = ""
                  /\ den > 0 => q * den <= num /\ num < (q + 1) * den
                  /\ den < 0 => q * den >= num /\ num > (q + 1) * den
                  /\ probe.temp = probe.base_temp => q = 0
                  /\ probe.temp = probe.target => q = 100
                  /\ (probe.temp > probe.target /\ den > 0) => q > 100

\* the temperature overshoots the target: 166 percent
C12_Witness ==
    /\ probe.op = "heating_percent" /\ probe.done
    /\ probe.temp = 7 /\ probe.target = 5 /\ probe.base_temp = 2
    /\ probe.out = [err |-> "", val |-> 166]

\* ------------------------------------------------------------------------
\* More properties of the controller loop
\* ------------------------------------------------------------------------
\* C13 (as claimed): shutdown_counter counts the complete ticks with power
\* on in a row: a tick issues a power-off only as the last of ten ticks in a
\* row that all observed complete with power on.
C13_PowerOffAfterTenInARow ==
    Has(calls, "power_off") => consec = 10

\* C14 (as claimed): on the printing tick that captures the baseline, the
\* heating percentages are taken relative to the temperatures captured on
\* that tick: for a target that is neither 0 nor the current temperature the
\* percentage is 0.
C14_CaptureTickShowsZero ==
    [][(/\ base_temps = <<>>
        /\ old_state' = "printing" /\ err' = ""
        /\ Has(calls', "printing_stats")
        /\ base_temps' # <<>>) =>
           /\ targets_'.bed \notin {0, printing_stats_'.bed.temp}
                 => printing_stats_'.bed.heating_percent = 0
           /\ targets_'.extruder \notin {0, printing_stats_'.extruder.temp}
                 => printing_stats_'.extruder.heating_percent = 0]_vars

\* C18 (as claimed): a printing tick never fails with an arithmetic error,
\* whatever the snapshot and the baseline captured earlier in the print.
C18_NoArithmeticError ==
    err # "ZeroDivisionError"

\* ------------------------------------------------------------------------
\* Properties of the animations, one strip operation at a time
\* ------------------------------------------------------------------------
\* the operation performed last is a flush of the call named name
Flushed(name) ==
    /\ pc = "busy"
    /\ job.plan[job.ci] = name
    /\ LastOp.op = "show"

\* C15 (as claimed): in every call of fade, whatever the strip held before,
\* the first flush, the one that shows the fade colour, happens at global
\* brightness 0.
C15_FadeStartsDark ==
    (Flushed("fade") /\ \A j \in 1..(job.k - 1) : JobOps[j].op # "show")
        => strip.brightness = 0

\* the process ends with the strip that chase() computed in one piece leaves
ChaseAgreesWithWrites ==
    (probe.op = "chase" /\ probe.at = "done") =>
        \E prior \in ChasePriors(probe.n, probe.reverse) :
            probe.strip = chase(prior, probe.color, probe.reverse)

\* C16 (as claimed): in forward and in reverse mode every flush of chase
\* shows at most one lit pixel, the one at the moving index i; every other
\* pixel is (0,0,0) when the strip is flushed.
C16_ChaseFlushesOneLitPixel ==
    (probe.op = "chase" /\ probe.at = "next") =>
        \A p \in DOMAIN probe.strip.pixels :
            probe.strip.pixels[p] # Black => p = probe.i

\* ------------------------------------------------------------------------
\* Properties of the controller loop around the idle timer
\* ------------------------------------------------------------------------
\* C17: a tick whose state query yields no state plays no animation, sends
\* no snapshot or power query and no power-off, and leaves base_temps and
\* shutdown_counter alone; it only updates the idle timer (plus 2 if the
\* tick before yielded no state either, else 0), clears the strip when the
\* timer exceeds IDLE_TIMEOUT, and records the state.
C17_NoStateTickOnlyIdles ==
    [][(pc = "sleep" /\ pc' = "sleep" /\ old_state' = NoState) =>
          /\ base_temps' = base_temps
          /\ shutdown_counter' = shutdown_counter
          /\ power_' = "none"
          /\ idle_timer' = IF old_state = NoState THEN idle_timer + 2 ELSE 0
          /\ IF idle_timer' > IDLE_TIMEOUT
             THEN /\ calls' = <<"clear_strip">>
                  /\ AllBlack(strip')
                  /\ strip'.brightness = strip.brightness
             ELSE /\ calls' = <<>>
                  /\ strip' = strip]_vars

\* a timed-out tick without a state, with a baseline and a count kept
C17_Witness ==
    /\ old_state = NoState /\ pc = "sleep"
    /\ idle_timer > IDLE_TIMEOUT
    /\ calls = <<"clear_strip">>
    /\ base_temps # <<>>
    /\ shutdown_counter > 0

\* C19 (as claimed): a tick that observes standby, paused or error, and a
\* state other than the tick before, plays the animation of the new state
\* (fade or bounce), whatever idle_timer was.
C19_NewStateAnimatesAtOnce ==
    [][(/\ pc = "sleep" /\ pc' = "sleep"
        /\ old_state' \in {"standby", "paused", "error"}
        /\ old_state' # old_state) =>
           Has(calls', IF old_state' = "paused" THEN "bounce" ELSE "fade")]_vars

\* C20 (as claimed): in the sleep after a tick that observed standby,
\* paused or error, or complete with power on, the strip emits no light:
\* every pixel is (0,0,0) or the global brightness is 0.
C20_DarkInSleepAfterAnimation ==
    (/\ pc = "sleep"
     /\ \/ old_state \in {"standby", "paused", "error"}
        \/ old_state = "complete" /\ power_ = "on") =>
        AllBlack(strip) \/ strip.brightness = 0
====
